---- MODULE Spec2Model ----
(***************************************************************************)
(* Manifest synchronisation and validation engine of cybergis-compute-core *)
(* (src/src/utils/Statistic.ts: GitUtil and ManifestUtil).                 *)
(*                                                                         *)
(* The remote repository, the two local mirrors, the process-wide cache,   *)
(* the persisted updatedAt column and the clock are the state; every       *)
(* await of the code is a step of a call.                                  *)
(***************************************************************************)
EXTENDS Integers, Sequences, FiniteSets, TLC

(***************************************************************************)
(* Bounds of the model.                                                    *)
(***************************************************************************)
MaxCommit == 2      \* commits the remote can hold
MaxCalls == 4       \* calls started in one behaviour
MaxTicks == 2       \* clock advances in one behaviour

Ids == {"A"}
PinnedShas == {0, 1}    \* git.sha: unset, or the first commit
Procs == {1, 2}

(***************************************************************************)
(* JavaScript values, tagged so that values of different types compare.    *)
(***************************************************************************)
Undef == [t |-> "undefined"]
NaN == [t |-> "NaN"]
Num(n) == [t |-> "number", n |-> n]
Str(s) == [t |-> "string", s |-> s]
Bool(b) == [t |-> "boolean", b |-> b]
Arr(a) == [t |-> "array", a |-> a]

EmptyObj == [k \in {} |-> Undef]

\* o.k of a JavaScript object: undefined when the key is absent
Get(o, k) == IF k \in DOMAIN o THEN o[k] ELSE Undef

\* o with o.k = v
Put(o, k, v) == [x \in (DOMAIN o) \cup {k} |-> IF x = k THEN v ELSE o[x]]

\* Object.assign(a, b): b's keys over a's
Assign(a, b) == [x \in (DOMAIN a) \cup (DOMAIN b) |-> IF x \in DOMAIN b THEN b[x] ELSE a[x]]

\* !v is false
Truthy(v) ==
    CASE v.t = "number" -> v.n # 0
      [] v.t = "string" -> v.s # ""
      [] v.t = "boolean" -> v.b
      [] v.t = "array" -> TRUE
      [] OTHER -> FALSE

\* v * 2 (the strings of the model are not numeric)
Times2(v) == IF v.t = "number" THEN Num(2 * v.n) ELSE NaN

\* arr.includes(v)
Includes(arr, v) == \E i \in 1..Len(arr.a) : arr.a[i] = v

(***************************************************************************)
(* The rule catalog of ../utils/types.                                     *)
(***************************************************************************)
slurm_integer_storage_unit_config == {"memory"}
slurm_integer_time_unit_config == {"time"}
slurm_integer_none_unit_config == {"num_of_task"}
slurm_integer_configs ==
    slurm_integer_storage_unit_config \cup slurm_integer_time_unit_config
        \cup slurm_integer_none_unit_config
slurm_string_option_configs == {"partition"}
slurm_configs == slurm_integer_configs \cup slurm_string_option_configs

Dropped == [t |-> "deleted"]

\* the integer defaults: max, min, step
IntegerDefaults(rule) ==
    LET r1 == IF ~Truthy(Get(rule, "max"))
              THEN Put(rule, "max", Times2(Get(rule, "default_value"))) ELSE rule
        r2 == IF ~Truthy(Get(r1, "min")) THEN Put(r1, "min", Num(0)) ELSE r1
    IN  IF ~Truthy(Get(r2, "step")) THEN Put(r2, "step", Num(1)) ELSE r2

\* variant: options that lack default_value are replaced by [default_value]
OptionDefaultsReplacing(rule) ==
    IF ~Truthy(Get(rule, "options")) \/ ~Includes(rule["options"], Get(rule, "default_value"))
    THEN Put(rule, "options", Arr(<<Get(rule, "default_value")>>))
    ELSE rule

\* the string-option defaults: options holds default_value
OptionDefaults(rule) ==
    LET r1 == IF ~Truthy(Get(rule, "options"))
              THEN Put(rule, "options", Arr(<<Get(rule, "default_value")>>)) ELSE rule
    IN  IF ~Includes(r1["options"], Get(r1, "default_value"))
        THEN Put(r1, "options", Arr(Append(r1["options"].a, Get(r1, "default_value"))))
        ELSE r1

\* one iteration of the slurm_input_rules loop
SlurmRule(rule_name, rule) ==
    IF rule_name \notin slurm_configs THEN Dropped
    ELSE IF ~Truthy(Get(rule, "default_value")) THEN Dropped
    ELSE IF /\ rule_name \in slurm_integer_time_unit_config
            /\ Get(rule, "unit") # Undef
            /\ Get(rule, "unit") \notin {Str("Minutes"), Str("Hours"), Str("Days")}
         THEN Dropped
    ELSE IF /\ rule_name \in slurm_integer_storage_unit_config
            /\ Get(rule, "unit") # Undef
            /\ Get(rule, "unit") \notin {Str("GB"), Str("MB")}
         THEN Dropped
    ELSE IF rule_name \in slurm_integer_none_unit_config
         THEN Put(rule, "unit", Str("None"))
    ELSE LET r1 == IF rule_name \in slurm_integer_configs THEN IntegerDefaults(rule) ELSE rule
         IN  IF rule_name \in slurm_string_option_configs THEN OptionDefaults(r1) ELSE r1

\* one iteration of the param_rules loop
ParamRule(rule) ==
    IF ~Truthy(Get(rule, "default_value")) THEN Dropped
    ELSE IF Get(rule, "type") \notin {Str("integer"), Str("string_option"), Str("string_input")}
         THEN Dropped
    ELSE LET r1 == IF Get(rule, "type") = Str("integer") THEN IntegerDefaults(rule) ELSE rule
         IN  IF Get(rule, "type") = Str("string_option") THEN OptionDefaults(r1) ELSE r1

\* the defaults the parsed document is merged over
ManifestDefaults(address) ==
    [name |-> Undef, container |-> Undef, connector |-> Undef,
     pre_processing_stage |-> Undef, execution_stage |-> Undef,
     post_processing_stage |-> Undef,
     description |-> Str("none"), estimated_runtime |-> Str("unknown"),
     supported_hpc |-> Arr(<<Str("keeling_community")>>),
     default_hpc |-> Undef, repository |-> Str(address),
     require_upload_data |-> Bool(FALSE),
     slurm_input_rules |-> EmptyObj, param_rules |-> EmptyObj]

\* supported_hpc[0]
FirstHpc(m) ==
    IF m["supported_hpc"].t = "array" /\ Len(m["supported_hpc"].a) > 0
    THEN m["supported_hpc"].a[1] ELSE Undef

\* processExecutableManifest on a document that parsed
processExecutableManifest(doc, address) ==
    LET m0 == Assign(ManifestDefaults(address), doc)
        m1 == IF ~Truthy(m0["default_hpc"]) /\ Truthy(m0["supported_hpc"])
              THEN Put(m0, "default_hpc", FirstHpc(m0)) ELSE m0
        sl == m1["slurm_input_rules"]
        slKeep == {n \in DOMAIN sl : SlurmRule(n, sl[n]) # Dropped}
        pr == m1["param_rules"]
        prKeep == {n \in DOMAIN pr : ParamRule(pr[n]) # Dropped}
    IN  [m1 EXCEPT !["slurm_input_rules"] = [n \in slKeep |-> SlurmRule(n, sl[n])],
                   !["param_rules"] = [n \in prKeep |-> ParamRule(pr[n])]]

(***************************************************************************)
(* The content of manifest.json: a text. "absent" stands for a tree with   *)
(* no manifest.json, "empty" for a file of zero length.                    *)
(***************************************************************************)
DocA ==
    [name |-> Str("demo"),
     slurm_input_rules |-> [time |-> [default_value |-> Num(5)]]]

DocB ==
    [name |-> Str("other"), supported_hpc |-> Arr(<<Str("anvil"), Str("expanse")>>),
     param_rules |-> [mode |-> [type |-> Str("string_option"), default_value |-> Str("fast"),
                                options |-> Arr(<<Str("slow")>>)]]]

PushedTexts == {"absent", "malformed", "docA", "docB"}

\* JSON.parse(text) returns
WellFormed(text) == text \in {"docA", "docB"}

\* JSON.parse(text)
Parse(text) == IF text = "docA" THEN DocA ELSE DocB

\* git.address
Address(g) == "https://github.com/cybergis/" \o g \o ".git"

(***************************************************************************)
(* State.                                                                  *)
(***************************************************************************)
VARIABLES
    remote,         \* remote[g]: the manifest.json text of each commit, oldest first
    defaultBranch,  \* defaultBranch[g]: the last segment of the remote's default branch
    gitSha,         \* gitSha[g]: git.sha, 0 when unset
    updatedAt,      \* updatedAt[g]: the updatedAt column of the Git row
    mirror,         \* mirror[g]: the full mirror at getLocalPath(g)
    manifests,      \* manifests[g]: the manifest-only mirror at getLocalManifestPath(g)
    cache,          \* GitUtil.cache
    now,            \* the clock, in milliseconds
    ticks,          \* clock advances so far
    calls,          \* calls started so far
    proc,           \* proc[p]: the call process p is in
    hist,           \* hist[p]: what the call of p has done so far (history)
    raw,            \* the document JSON.parse returned to processExecutableManifest
    out,            \* what processExecutableManifest returned for it, and for its own output
    downloadedAt    \* downloadedAt[g]: when wget last wrote the manifest-only copy (history)

vars == <<remote, defaultBranch, gitSha, updatedAt, mirror, manifests, cache, now, ticks,
          calls, proc, hist, raw, out, downloadedAt>>

Missing == [st |-> "missing", objs |-> 0, head |-> 0]
EmptyDir == [st |-> "empty", objs |-> 0, head |-> 0]
Repo(objs, head) == [st |-> "repo", objs |-> objs, head |-> head]

\* values of git.updatedAt
NoDate == [t |-> "undefined"]
NullDate == [t |-> "null"]
Date(ms) == [t |-> "date", ms |-> ms]

\* revisions a raw-content URL names
ShaRev(n) == [sha |-> n]
BranchRev(b) == [branch |-> b]

NoEntry == [st |-> "none"]
NoResult == [st |-> "none"]
Ok(v) == [st |-> "ok", v |-> v]
Error(e) == [st |-> "error", e |-> e]

\* the remote's head commit, 0 for a remote with no commit
RemoteHead(g) == Len(remote[g])

\* the text of manifest.json in the working tree of a full mirror
WorkTree(g, m) == IF m.st = "repo" /\ m.head >= 1 THEN remote[g][m.head] ELSE "absent"

\* log({depth: 1}) resolves: the mirror is a repository with a commit checked out
HasCommit(m) == m.st = "repo" /\ m.head >= 1

IdleProc ==
    [kind |-> "none", id |-> "A", pc |-> "idle", ctx |-> "none", refreshed |-> FALSE,
     remoteSha |-> 0, branch |-> "none", gitUpdatedAt |-> NoDate, res |-> NoResult]

NoHist ==
    [mutated |-> FALSE, rec |-> <<>>, synced |-> FALSE, wrote |-> FALSE, cached |-> FALSE,
     snap |-> Missing, dl |-> <<>>, ttl |-> <<>>, pushed |-> FALSE, quiet |-> FALSE,
     prevKind |-> "none", prevRes |-> NoResult]

Init ==
    /\ remote = [g \in Ids |-> <<>>]
    /\ defaultBranch \in [Ids -> {"main", "master"}]
    /\ gitSha \in [Ids -> PinnedShas]
    /\ updatedAt \in [Ids -> {NoDate, NullDate}]
    /\ mirror = [g \in Ids |-> Missing]
    /\ manifests = [g \in Ids |-> "missing"]
    /\ cache = [g \in Ids |-> NoEntry]
    /\ now = 0
    /\ ticks = 0
    /\ calls = 0
    /\ proc = [p \in Procs |-> IdleProc]
    /\ hist = [p \in Procs |-> NoHist]
    /\ raw = DocA
    /\ out = <<>>
    /\ downloadedAt = [g \in Ids |-> NoDate]

(***************************************************************************)
(* Helpers of the steps.                                                   *)
(***************************************************************************)
Finished(pr, res) == [pr EXCEPT !.pc = "done", !.res = res]

\* where a call continues when deleteAndPull / deleteAndPullManifest returns
AfterDeleteAndPull(pr) ==
    CASE pr.ctx = "missing" -> [pr EXCEPT !.pc = "refreshed", !.refreshed = TRUE]
      [] pr.ctx = "update" -> [pr EXCEPT !.pc = "ts"]
      [] pr.ctx = "read" -> [pr EXCEPT !.pc = "read2"]
      [] pr.ctx = "mupdate" -> [pr EXCEPT !.pc = "mts"]
      [] OTHER -> [pr EXCEPT !.pc = "mread2"]

\* the synchronous head of deleteAndPull: rimraf.sync and the mkdir it starts
EnterDeleteAndPull(p, ctx, recovery) ==
    /\ mirror' = [mirror EXCEPT ![proc[p].id] = EmptyDir]
    /\ proc' = [proc EXCEPT ![p] = [@ EXCEPT !.pc = "clone", !.ctx = ctx]]
    /\ hist' = [hist EXCEPT ![p] = [@ EXCEPT !.mutated = TRUE,
                                      !.rec = IF recovery THEN Append(@, ctx) ELSE @]]

\* variant: checkout leaves the mirror at the head it fetched
CheckedOutHead(m, sha) == Repo(m.objs, m.objs)

\* the mirror after checkout({ref: git.sha})
CheckedOut(m, sha) == Repo(m.objs, sha)

\* variant: the comparison of the remote and the local commit inverted
OutOfDateInverted(sha, fetchHead, localSha) ==
    LET remoteSha == IF sha # 0 THEN sha ELSE fetchHead
    IN  (sha # 0 /\ localSha = sha) \/ remoteSha = localSha

\* the value outOfDate returns once fetch gave a head and log a local commit
OutOfDate(sha, fetchHead, localSha) ==
    LET remoteSha == IF sha # 0 THEN sha ELSE fetchHead
    IN  (sha # 0 /\ localSha = sha) \/ remoteSha # localSha

\* getExecutableManifest returns the cached manifest
CacheHit(refreshed, entry) == ~refreshed /\ entry # NoEntry

\* what the call returns for the text it read, and what it leaves in the cache
ManifestOf(g, text) ==
    IF WellFormed(text) THEN Ok(processExecutableManifest(Parse(text), Address(g)))
    ELSE Error("parse")

(***************************************************************************)
(* GitUtil: refreshGit, deleteAndPull, outOfDate.                          *)
(***************************************************************************)
\* refreshGit up to its first remote operation
RefreshGit(p) ==
    /\ proc[p].pc = "refreshGit"
    /\ IF mirror[proc[p].id].st = "missing"
       THEN EnterDeleteAndPull(p, "missing", FALSE)
       ELSE /\ proc' = [proc EXCEPT ![p] = [@ EXCEPT !.pc = "fetch"]]
            /\ UNCHANGED <<mirror, hist>>
    /\ UNCHANGED <<remote, defaultBranch, gitSha, raw, out, downloadedAt, updatedAt, manifests, cache, now, ticks, calls>>

\* deleteAndPull: clone
Clone(p) ==
    LET g == proc[p].id
        pr == proc[p]
        cloned == Repo(RemoteHead(g), RemoteHead(g))
    IN  /\ pr.pc = "clone"
        /\ \E ok \in BOOLEAN :
             IF ok
             THEN /\ mirror' = [mirror EXCEPT ![g] = cloned]
                  /\ proc' = [proc EXCEPT ![p] =
                        IF gitSha[g] # 0 THEN [pr EXCEPT !.pc = "checkout"]
                        ELSE AfterDeleteAndPull(pr)]
                  /\ hist' = [hist EXCEPT ![p] =
                        IF gitSha[g] # 0 THEN @
                        ELSE [@ EXCEPT !.synced = TRUE, !.snap = cloned]]
             ELSE /\ proc' = [proc EXCEPT ![p] = Finished(pr, Error("clone"))]
                  /\ UNCHANGED <<mirror, hist>>
        /\ UNCHANGED <<remote, defaultBranch, gitSha, raw, out, downloadedAt, updatedAt, manifests, cache, now, ticks, calls>>

\* deleteAndPull: checkout of git.sha
Checkout(p) ==
    LET g == proc[p].id
        pr == proc[p]
        m == mirror[g]
    IN  /\ pr.pc = "checkout"
        /\ IF m.st = "repo" /\ gitSha[g] <= m.objs
           THEN /\ mirror' = [mirror EXCEPT ![g] = CheckedOut(m, gitSha[g])]
                /\ proc' = [proc EXCEPT ![p] = AfterDeleteAndPull(pr)]
                /\ hist' = [hist EXCEPT ![p] =
                      [@ EXCEPT !.synced = TRUE, !.snap = CheckedOut(m, gitSha[g])]]
           ELSE /\ proc' = [proc EXCEPT ![p] = Finished(pr, Error("checkout"))]
                /\ UNCHANGED <<mirror, hist>>
        /\ UNCHANGED <<remote, defaultBranch, gitSha, raw, out, downloadedAt, updatedAt, manifests, cache, now, ticks, calls>>

\* outOfDate: fetch (isomorphic-git resolves HEAD of the directory before it asks the
\* remote, so it throws in a directory that holds no repository)
Fetch(p) ==
    LET g == proc[p].id
        pr == proc[p]
        m == mirror[g]
    IN  /\ pr.pc = "fetch"
        /\ \E ok \in BOOLEAN :
             IF m.st # "repo"
             THEN /\ proc' = [proc EXCEPT ![p] = Finished(pr, Error("norepo"))]
                  /\ UNCHANGED mirror
             ELSE IF ~ok
             THEN /\ proc' = [proc EXCEPT ![p] = Finished(pr, Error("fetch"))]
                  /\ UNCHANGED mirror
             ELSE IF RemoteHead(g) = 0
                  THEN /\ proc' = [proc EXCEPT ![p] = [pr EXCEPT !.pc = "update"]]
                       /\ UNCHANGED mirror
             ELSE /\ mirror' = [mirror EXCEPT ![g] = Repo(RemoteHead(g), m.head)]
                  /\ proc' = [proc EXCEPT ![p] =
                        [pr EXCEPT !.pc = "log", !.remoteSha = RemoteHead(g)]]
        /\ UNCHANGED <<remote, defaultBranch, gitSha, raw, out, downloadedAt, updatedAt, manifests, cache, now, ticks, calls, hist>>

\* outOfDate: log and the comparison
Log(p) ==
    LET g == proc[p].id
        pr == proc[p]
        m == mirror[g]
    IN  /\ pr.pc = "log"
        /\ proc' = [proc EXCEPT ![p] =
              IF ~HasCommit(m) THEN Finished(pr, Error("log"))
              ELSE IF OutOfDate(gitSha[g], pr.remoteSha, m.head) THEN [pr EXCEPT !.pc = "update"]
              ELSE [pr EXCEPT !.pc = "refreshed", !.refreshed = FALSE]]
        /\ UNCHANGED <<remote, defaultBranch, gitSha, raw, out, downloadedAt, updatedAt, mirror, manifests, cache, now, ticks, calls, hist>>

\* refreshGit: checkout of git.sha or pull, deleteAndPull when it throws
Update(p) ==
    LET g == proc[p].id
        pr == proc[p]
        m == mirror[g]
        to == IF gitSha[g] # 0 THEN CheckedOut(m, gitSha[g]) ELSE Repo(RemoteHead(g), RemoteHead(g))
    IN  /\ pr.pc = "update"
        /\ \E ok \in BOOLEAN :
             IF /\ m.st = "repo"
                /\ IF gitSha[g] # 0 THEN gitSha[g] <= m.objs ELSE ok /\ RemoteHead(g) >= 1
             THEN /\ mirror' = [mirror EXCEPT ![g] = to]
                  /\ proc' = [proc EXCEPT ![p] = [pr EXCEPT !.pc = "ts"]]
                  /\ hist' = [hist EXCEPT ![p] = [@ EXCEPT !.mutated = TRUE, !.synced = TRUE]]
             ELSE EnterDeleteAndPull(p, "update", TRUE)
        /\ UNCHANGED <<remote, defaultBranch, gitSha, raw, out, downloadedAt, updatedAt, manifests, cache, now, ticks, calls>>

\* refreshGit: the update of updatedAt
Timestamp(p) ==
    LET g == proc[p].id
    IN  /\ proc[p].pc = "ts"
        /\ updatedAt' = [updatedAt EXCEPT ![g] = Date(now)]
        /\ proc' = [proc EXCEPT ![p] = [@ EXCEPT !.pc = "refreshed", !.refreshed = TRUE]]
        /\ hist' = [hist EXCEPT ![p] = [@ EXCEPT !.wrote = TRUE]]
        /\ UNCHANGED <<remote, defaultBranch, gitSha, raw, out, downloadedAt, mirror, manifests, cache, now, ticks, calls>>

(***************************************************************************)
(* GitUtil.getExecutableManifest and GitUtil.getLastCommitTime.            *)
(***************************************************************************)
\* the caller of refreshGit resumes
AfterRefresh(p) ==
    LET g == proc[p].id
        pr == proc[p]
    IN  /\ pr.pc = "refreshed"
        /\ IF pr.kind = "lct"
           THEN /\ proc' = [proc EXCEPT ![p] = [pr EXCEPT !.pc = "lctlog"]]
                /\ UNCHANGED hist
           ELSE IF CacheHit(pr.refreshed, cache[g])
           THEN /\ proc' = [proc EXCEPT ![p] = Finished(pr, Ok(cache[g]))]
                /\ hist' = [hist EXCEPT ![p] = [@ EXCEPT !.cached = TRUE]]
           ELSE /\ proc' = [proc EXCEPT ![p] = [pr EXCEPT !.pc = "read"]]
                /\ UNCHANGED hist
        /\ UNCHANGED <<remote, defaultBranch, gitSha, raw, out, downloadedAt, updatedAt, mirror, manifests, cache, now, ticks, calls>>

\* variant: JSON.parse inside the try: a text that does not parse is deleted and repulled
ReadRetryingParse(p) ==
    LET g == proc[p].id
        pr == proc[p]
        text == WorkTree(g, mirror[g])
    IN  /\ pr.pc = "read"
        /\ IF ~WellFormed(text)
           THEN EnterDeleteAndPull(p, "read", TRUE) /\ UNCHANGED cache
           ELSE /\ proc' = [proc EXCEPT ![p] = Finished(pr, ManifestOf(g, text))]
                /\ cache' = [cache EXCEPT ![g] = ManifestOf(g, text).v]
                /\ UNCHANGED <<mirror, hist>>
        /\ UNCHANGED <<remote, defaultBranch, gitSha, raw, out, downloadedAt, updatedAt, manifests, now, ticks, calls>>

\* variant: the cache holds one manifest for all repositories
ReadOneEntry(p) ==
    LET g == proc[p].id
        pr == proc[p]
        text == WorkTree(g, mirror[g])
    IN  /\ pr.pc = "read"
        /\ IF text = "absent"
           THEN EnterDeleteAndPull(p, "read", TRUE) /\ UNCHANGED cache
           ELSE /\ proc' = [proc EXCEPT ![p] = Finished(pr, ManifestOf(g, text))]
                /\ cache' = IF WellFormed(text)
                            THEN [h \in DOMAIN cache |-> ManifestOf(g, text).v] ELSE cache
                /\ UNCHANGED <<mirror, hist>>
        /\ UNCHANGED <<remote, defaultBranch, gitSha, raw, out, downloadedAt, updatedAt, manifests, now, ticks, calls>>

\* the first readFile of manifest.json, deleteAndPull when it throws
Read(p) ==
    LET g == proc[p].id
        pr == proc[p]
        text == WorkTree(g, mirror[g])
    IN  /\ pr.pc = "read"
        /\ IF text = "absent"
           THEN EnterDeleteAndPull(p, "read", TRUE) /\ UNCHANGED cache
           ELSE /\ proc' = [proc EXCEPT ![p] = Finished(pr, ManifestOf(g, text))]
                /\ cache' = IF WellFormed(text)
                            THEN [cache EXCEPT ![g] = ManifestOf(g, text).v] ELSE cache
                /\ UNCHANGED <<mirror, hist>>
        /\ UNCHANGED <<remote, defaultBranch, gitSha, raw, out, downloadedAt, updatedAt, manifests, now, ticks, calls>>

\* variant: the second readFile in a try of its own: deleteAndPull again when it throws
Read2Retrying(p) ==
    LET g == proc[p].id
        pr == proc[p]
        text == WorkTree(g, mirror[g])
    IN  /\ pr.pc = "read2"
        /\ IF text = "absent"
           THEN EnterDeleteAndPull(p, "read", TRUE) /\ UNCHANGED cache
           ELSE /\ proc' = [proc EXCEPT ![p] = Finished(pr, ManifestOf(g, text))]
                /\ cache' = IF WellFormed(text)
                            THEN [cache EXCEPT ![g] = ManifestOf(g, text).v] ELSE cache
                /\ UNCHANGED <<mirror, hist>>
        /\ UNCHANGED <<remote, defaultBranch, gitSha, raw, out, downloadedAt, updatedAt, manifests, now, ticks, calls>>

\* variant: the second readFile removes the mirror when it throws
Read2Deleting(p) ==
    LET g == proc[p].id
        pr == proc[p]
        text == WorkTree(g, mirror[g])
    IN  /\ pr.pc = "read2"
        /\ proc' = [proc EXCEPT ![p] =
              Finished(pr, IF text = "absent" THEN Error("read") ELSE ManifestOf(g, text))]
        /\ mirror' = IF text = "absent" THEN [mirror EXCEPT ![g] = Missing] ELSE mirror
        /\ cache' = IF WellFormed(text)
                    THEN [cache EXCEPT ![g] = ManifestOf(g, text).v] ELSE cache
        /\ UNCHANGED <<remote, defaultBranch, gitSha, raw, out, downloadedAt, updatedAt, manifests, now, ticks, calls, hist>>

\* the readFile that follows deleteAndPull
Read2(p) ==
    LET g == proc[p].id
        pr == proc[p]
        text == WorkTree(g, mirror[g])
    IN  /\ pr.pc = "read2"
        /\ proc' = [proc EXCEPT ![p] =
              Finished(pr, IF text = "absent" THEN Error("read") ELSE ManifestOf(g, text))]
        /\ cache' = IF WellFormed(text)
                    THEN [cache EXCEPT ![g] = ManifestOf(g, text).v] ELSE cache
        /\ UNCHANGED <<remote, defaultBranch, gitSha, raw, out, downloadedAt, updatedAt, mirror, manifests, now, ticks, calls, hist>>

\* getLastCommitTime: log after refreshGit
LastCommitLog(p) ==
    LET g == proc[p].id
        pr == proc[p]
        m == mirror[g]
    IN  /\ pr.pc = "lctlog"
        /\ proc' = [proc EXCEPT ![p] =
              Finished(pr, IF HasCommit(m) THEN Ok([commitTime |-> m.head]) ELSE Error("log"))]
        /\ UNCHANGED <<remote, defaultBranch, gitSha, raw, out, downloadedAt, updatedAt, mirror, manifests, cache, now, ticks, calls, hist>>

(***************************************************************************)
(* ManifestUtil: refreshGitManifest, deleteAndPullManifest,                *)
(* getExecutableManifest.                                                  *)
(***************************************************************************)
\* the commit a revision of the raw-content URL resolves to, 0 when it does not
Resolve(g, rev) ==
    IF "sha" \in DOMAIN rev
    THEN IF rev.sha <= RemoteHead(g) THEN rev.sha ELSE 0
    ELSE IF rev.branch = defaultBranch[g] THEN RemoteHead(g) ELSE 0

\* wget -O manifest.json <url> exits 0
Downloads(g, rev) == Resolve(g, rev) # 0 /\ remote[g][Resolve(g, rev)] # "absent"

\* manifest.json after wget -O: the output file is truncated before the request
Downloaded(g, rev, ok) == IF ok /\ Downloads(g, rev) THEN remote[g][Resolve(g, rev)] ELSE "empty"

\* what getDefaultBranch returns for the remote
ResolvedBranch(g) == IF RemoteHead(g) = 0 THEN "main" ELSE defaultBranch[g]

\* the revision a download should name: git.sha, else the resolved default branch
WantedRev(g) == IF gitSha[g] # 0 THEN ShaRev(gitSha[g]) ELSE BranchRev(ResolvedBranch(g))

\* the revision of the download when the manifest-only mirror is missing
InitialRev(sha) == BranchRev("main")

\* the revision of the download when the manifest-only mirror is stale
UpdateRev(sha) == IF sha # 0 THEN ShaRev(sha) ELSE BranchRev("main")

\* the revision of the download of deleteAndPullManifest
RecoveryRev(sha, branch) == IF sha # 0 THEN ShaRev(sha) ELSE BranchRev(branch)

\* secsSinceUpdate, in milliseconds
MsSinceUpdate(t, u) ==
    CASE u.t = "undefined" -> t + 999999
      [] u.t = "null" -> 1000000 * 1000
      [] OTHER -> t - u.ms

\* variant: secsSinceUpdate >= 120
StaleManifestInclusive(t, u) == MsSinceUpdate(t, u) >= 120 * 1000

\* secsSinceUpdate > 120
StaleManifest(t, u) == MsSinceUpdate(t, u) > 120 * 1000

\* the check of git.updatedAt against the clock: the call goes on to download or to read
TtlCheck(pr) ==
    [pr EXCEPT !.pc = IF StaleManifest(now, pr.gitUpdatedAt) THEN "mupdate" ELSE "mread"]

\* the check as the history records it
TtlSeen(h, pr) ==
    [h EXCEPT !.ttl = <<[now |-> now, u |-> pr.gitUpdatedAt,
                         stale |-> TtlCheck(pr).pc = "mupdate"]>>]

\* the synchronous head of deleteAndPullManifest: rimraf.sync and the mkdir it starts
EnterDeleteAndPullManifest(p, ctx) ==
    /\ manifests' = [manifests EXCEPT ![proc[p].id] = "nofile"]
    /\ proc' = [proc EXCEPT ![p] =
          [@ EXCEPT !.pc = IF gitSha[proc[p].id] # 0 THEN "mdownload" ELSE "mbranch", !.ctx = ctx]]
    /\ hist' = [hist EXCEPT ![p] = [@ EXCEPT !.mutated = TRUE, !.rec = Append(@, ctx)]]

\* refreshGitManifest up to its first await
RefreshGitManifest(p) ==
    LET g == proc[p].id
        pr == proc[p]
    IN  /\ pr.pc = "refreshGitManifest"
        /\ IF manifests[g] = "missing"
           THEN /\ manifests' = [manifests EXCEPT ![g] = "nofile"]
                /\ proc' = [proc EXCEPT ![p] = [pr EXCEPT !.pc = "minit"]]
                /\ hist' = [hist EXCEPT ![p] = [@ EXCEPT !.mutated = TRUE]]
           ELSE /\ proc' = [proc EXCEPT ![p] = TtlCheck(pr)]
                /\ hist' = [hist EXCEPT ![p] = TtlSeen(@, pr)]
                /\ UNCHANGED manifests
        /\ UNCHANGED <<remote, defaultBranch, gitSha, raw, out, downloadedAt, updatedAt, mirror, cache, now, ticks, calls>>

\* the download into the manifest-only mirror that was missing, and the check of updatedAt
InitialDownload(p) ==
    LET g == proc[p].id
        pr == proc[p]
        rev == InitialRev(gitSha[g])
    IN  /\ pr.pc = "minit"
        /\ \E ok \in BOOLEAN :
             /\ manifests' = [manifests EXCEPT ![g] = Downloaded(g, rev, ok)]
             /\ downloadedAt' = [downloadedAt EXCEPT ![g] = Date(now)]
             /\ IF ok /\ Downloads(g, rev)
                THEN /\ proc' = [proc EXCEPT ![p] = TtlCheck(pr)]
                     /\ hist' = [hist EXCEPT ![p] =
                           TtlSeen([@ EXCEPT !.synced = TRUE,
                                     !.dl = Append(@, [stage |-> "initial", rev |-> rev, want |-> WantedRev(g)])], pr)]
                ELSE /\ proc' = [proc EXCEPT ![p] = Finished(pr, Error("download"))]
                     /\ hist' = [hist EXCEPT ![p] =
                           [@ EXCEPT !.dl = Append(@, [stage |-> "initial", rev |-> rev, want |-> WantedRev(g)])]]
        /\ UNCHANGED <<remote, defaultBranch, gitSha, raw, out, updatedAt, mirror, cache, now, ticks, calls>>

\* the download into the stale manifest-only mirror, deleteAndPullManifest when it throws
UpdateDownload(p) ==
    LET g == proc[p].id
        pr == proc[p]
        rev == UpdateRev(gitSha[g])
        entry == [stage |-> "update", rev |-> rev, want |-> WantedRev(g)]
    IN  /\ pr.pc = "mupdate"
        /\ \E ok \in BOOLEAN :
             IF ok /\ Downloads(g, rev) /\ manifests[g] # "missing"
             THEN /\ manifests' = [manifests EXCEPT ![g] = Downloaded(g, rev, ok)]
                  /\ downloadedAt' = [downloadedAt EXCEPT ![g] = Date(now)]
                  /\ proc' = [proc EXCEPT ![p] = [pr EXCEPT !.pc = "mts"]]
                  /\ hist' = [hist EXCEPT ![p] =
                        [@ EXCEPT !.mutated = TRUE, !.synced = TRUE, !.dl = Append(@, entry)]]
             ELSE /\ manifests' = [manifests EXCEPT ![g] = "nofile"]
                  /\ UNCHANGED downloadedAt
                  /\ proc' = [proc EXCEPT ![p] =
                        [pr EXCEPT !.pc = IF gitSha[g] # 0 THEN "mdownload" ELSE "mbranch",
                                   !.ctx = "mupdate"]]
                  /\ hist' = [hist EXCEPT ![p] =
                        [@ EXCEPT !.mutated = TRUE, !.rec = Append(@, "mupdate"),
                                  !.dl = Append(@, entry)]]
        /\ UNCHANGED <<remote, defaultBranch, gitSha, raw, out, updatedAt, mirror, cache, now, ticks, calls>>

\* deleteAndPullManifest: getDefaultBranch, a fetch in the full mirror's directory
DefaultBranch(p) ==
    LET g == proc[p].id
        pr == proc[p]
        m == mirror[g]
    IN  /\ pr.pc = "mbranch"
        /\ \E ok \in BOOLEAN :
             IF ok /\ m.st = "repo"
             THEN /\ mirror' = [mirror EXCEPT ![g] = Repo(RemoteHead(g), m.head)]
                  /\ proc' = [proc EXCEPT ![p] =
                        [pr EXCEPT !.pc = "mdownload", !.branch = ResolvedBranch(g)]]
             ELSE /\ proc' = [proc EXCEPT ![p] = Finished(pr, Error("fetch"))]
                  /\ UNCHANGED mirror
        /\ UNCHANGED <<remote, defaultBranch, gitSha, raw, out, downloadedAt, updatedAt, manifests, cache, now, ticks, calls, hist>>

\* deleteAndPullManifest: the download
RecoveryDownload(p) ==
    LET g == proc[p].id
        pr == proc[p]
        rev == RecoveryRev(gitSha[g], pr.branch)
        entry == [stage |-> "recovery", rev |-> rev, want |-> WantedRev(g)]
    IN  /\ pr.pc = "mdownload"
        /\ \E ok \in BOOLEAN :
             /\ manifests' = [manifests EXCEPT ![g] = Downloaded(g, rev, ok)]
             /\ downloadedAt' = [downloadedAt EXCEPT ![g] = Date(now)]
             /\ IF ok /\ Downloads(g, rev)
                THEN /\ proc' = [proc EXCEPT ![p] = AfterDeleteAndPull(pr)]
                     /\ hist' = [hist EXCEPT ![p] = [@ EXCEPT !.synced = TRUE, !.dl = Append(@, entry)]]
                ELSE /\ proc' = [proc EXCEPT ![p] = Finished(pr, Error("download"))]
                     /\ hist' = [hist EXCEPT ![p] = [@ EXCEPT !.dl = Append(@, entry)]]
        /\ UNCHANGED <<remote, defaultBranch, gitSha, raw, out, updatedAt, mirror, cache, now, ticks, calls>>

\* refreshGitManifest: the update of updatedAt
ManifestTimestamp(p) ==
    LET g == proc[p].id
    IN  /\ proc[p].pc = "mts"
        /\ updatedAt' = [updatedAt EXCEPT ![g] = Date(now)]
        /\ proc' = [proc EXCEPT ![p] = [@ EXCEPT !.pc = "mread"]]
        /\ hist' = [hist EXCEPT ![p] = [@ EXCEPT !.wrote = TRUE]]
        /\ UNCHANGED <<remote, defaultBranch, gitSha, raw, out, downloadedAt, mirror, manifests, cache, now, ticks, calls>>

\* the first readFile of the manifest-only copy, deleteAndPullManifest when it throws
ManifestRead(p) ==
    LET g == proc[p].id
        pr == proc[p]
        text == manifests[g]
    IN  /\ pr.pc = "mread"
        /\ IF text \in {"missing", "nofile"}
           THEN EnterDeleteAndPullManifest(p, "mread")
           ELSE /\ proc' = [proc EXCEPT ![p] = Finished(pr, ManifestOf(g, text))]
                /\ UNCHANGED <<manifests, hist>>
        /\ UNCHANGED <<remote, defaultBranch, gitSha, raw, out, downloadedAt, updatedAt, mirror, cache, now, ticks, calls>>

\* the readFile that follows deleteAndPullManifest
ManifestRead2(p) ==
    LET g == proc[p].id
        pr == proc[p]
        text == manifests[g]
    IN  /\ pr.pc = "mread2"
        /\ proc' = [proc EXCEPT ![p] =
              Finished(pr, IF text \in {"missing", "nofile"} THEN Error("read")
                           ELSE ManifestOf(g, text))]
        /\ UNCHANGED <<remote, defaultBranch, gitSha, raw, out, downloadedAt, updatedAt, mirror, manifests, cache, now, ticks, calls, hist>>

(***************************************************************************)
(* Calls and the environment.                                              *)
(***************************************************************************)
FirstPc(kind) == IF kind = "manifest" THEN "refreshGitManifest" ELSE "refreshGit"

\* a caller loads the Git row and calls kind on it
Start(p, kind, g) ==
    /\ calls < MaxCalls
    /\ proc[p].pc \in {"idle", "done"}
    /\ calls' = calls + 1
    /\ proc' = [proc EXCEPT ![p] =
          [IdleProc EXCEPT !.kind = kind, !.id = g, !.pc = FirstPc(kind),
                           !.gitUpdatedAt = updatedAt[g]]]
    /\ hist' = [hist EXCEPT ![p] =
          [NoHist EXCEPT !.prevKind = IF proc[p].id = g THEN proc[p].kind ELSE "none",
                         !.prevRes = IF kind = "full" /\ proc[p].kind = "full" /\ proc[p].id = g
                                     THEN proc[p].res ELSE NoResult,
                         !.quiet = ~hist[p].pushed]]
    /\ UNCHANGED <<remote, defaultBranch, gitSha, raw, out, downloadedAt, updatedAt, mirror, manifests, cache, now, ticks>>

\* the steps that talk to the remote
RemoteReaders == {"clone", "fetch", "update", "minit", "mupdate", "mbranch", "mdownload"}

\* a commit is pushed to the remote; it is observed only by the next step that talks to it
Push(g) ==
    /\ Len(remote[g]) < MaxCommit
    /\ \E p \in Procs : proc[p].id = g /\ proc[p].pc \in RemoteReaders
    /\ \E text \in PushedTexts : remote' = [remote EXCEPT ![g] = Append(@, text)]
    /\ hist' = [p \in Procs |-> IF proc[p].id = g THEN [hist[p] EXCEPT !.pushed = TRUE] ELSE hist[p]]
    /\ UNCHANGED <<defaultBranch, gitSha, raw, out, downloadedAt, updatedAt, mirror, manifests, cache, now, ticks, calls, proc>>

Deltas == {1, 30000, 120000}

\* the steps that read the clock, or that end a download whose continuation reads it
\* (now = new Date() runs in the continuation of the awaited wget)
ClockReaders == {"ts", "refreshGitManifest", "minit", "mupdate"}

\* time passes; it is observed only by the next step that reads the clock
Tick ==
    /\ ticks < MaxTicks
    /\ \E p \in Procs : proc[p].pc \in ClockReaders
    /\ ticks' = ticks + 1
    /\ \E d \in Deltas : now' = now + d
    /\ UNCHANGED <<remote, defaultBranch, gitSha, raw, out, downloadedAt, updatedAt, mirror, manifests, cache, calls, proc, hist>>

FullStep(p) ==
    \/ RefreshGit(p)
    \/ Clone(p)
    \/ Checkout(p)
    \/ Fetch(p)
    \/ Log(p)
    \/ Update(p)
    \/ Timestamp(p)
    \/ AfterRefresh(p)
    \/ Read(p)
    \/ Read2(p)
    \/ LastCommitLog(p)

ManifestStep(p) ==
    \/ RefreshGitManifest(p)
    \/ InitialDownload(p)
    \/ UpdateDownload(p)
    \/ DefaultBranch(p)
    \/ RecoveryDownload(p)
    \/ ManifestTimestamp(p)
    \/ ManifestRead(p)
    \/ ManifestRead2(p)

\* calls of every kind, one after another
Next ==
    \/ \E g \in Ids : \E kind \in {"full", "lct", "manifest"} : Start(1, kind, g)
    \/ FullStep(1)
    \/ ManifestStep(1)
    \/ \E g \in Ids : Push(g)

Spec == Init /\ [][Next]_vars

\* calls of the manifest-only kind, one after another, as time passes (the full mirror's
\* calls, which alone can leave a fresh updatedAt next to a manifest-only mirror without
\* manifest.json, are not part of it: the second read is never reached)
TimeNext ==
    \/ \E g \in Ids : Start(1, "manifest", g)
    \/ RefreshGitManifest(1)
    \/ InitialDownload(1)
    \/ UpdateDownload(1)
    \/ DefaultBranch(1)
    \/ RecoveryDownload(1)
    \/ ManifestTimestamp(1)
    \/ ManifestRead(1)
    \/ \E g \in Ids : Push(g)
    \/ Tick

TimeSpec == Init /\ [][TimeNext]_vars

\* two callers, one call each, their steps interleaved
ConcNext ==
    \/ \E p \in Procs : \E g \in Ids : \E kind \in {"full", "lct", "manifest"} :
          proc[p].pc = "idle" /\ Start(p, kind, g)
    \/ \E p \in Procs : FullStep(p)
    \/ \E p \in Procs : ManifestStep(p)
    \/ \E g \in Ids : Push(g)

ConcSpec == Init /\ [][ConcNext]_vars

\* a repository whose remote has its first commit, never synchronised
MixInit ==
    /\ remote = [g \in Ids |-> <<"docA">>]
    /\ defaultBranch = [g \in Ids |-> "main"]
    /\ gitSha \in [Ids -> PinnedShas]
    /\ updatedAt = [g \in Ids |-> NoDate]
    /\ mirror = [g \in Ids |-> Missing]
    /\ manifests = [g \in Ids |-> "missing"]
    /\ cache = [g \in Ids |-> NoEntry]
    /\ now = 0
    /\ ticks = 0
    /\ calls = 0
    /\ proc = [p \in Procs |-> IdleProc]
    /\ hist = [p \in Procs |-> NoHist]
    /\ raw = DocA
    /\ out = <<>>
    /\ downloadedAt = [g \in Ids |-> NoDate]

\* calls of the full-mirror and of the manifest-only kind on one repository, one after
\* another, as time passes
MixNext ==
    \/ \E g \in Ids : \E kind \in {"full", "manifest"} : Start(1, kind, g)
    \/ RefreshGit(1)
    \/ Clone(1)
    \/ Checkout(1)
    \/ Fetch(1)
    \/ Log(1)
    \/ Update(1)
    \/ Timestamp(1)
    \/ AfterRefresh(1)
    \/ Read(1)
    \/ Read2(1)
    \/ ManifestStep(1)
    \/ \E g \in Ids : Push(g)
    \/ Tick

MixSpec == MixInit /\ [][MixNext]_vars

\* two repositories
BothIds == {"A", "B"}

\* the caller of each repository
CallerOf(p) == IF p = 1 THEN "A" ELSE "B"

IndepInit ==
    /\ remote \in {[A |-> a, B |-> b] : a \in {<<"docA">>, <<"absent">>},
                                         b \in {<<>>, <<"docA", "docB">>}}
    /\ defaultBranch = [g \in BothIds |-> "main"]
    /\ gitSha \in [BothIds -> PinnedShas]
    /\ updatedAt = [g \in BothIds |-> NoDate]
    /\ mirror = [g \in BothIds |-> Missing]
    /\ manifests = [g \in BothIds |-> "missing"]
    /\ cache = [g \in BothIds |-> NoEntry]
    /\ now = 0
    /\ ticks = 0
    /\ calls = 0
    /\ proc = [p \in Procs |-> IdleProc]
    /\ hist = [p \in Procs |-> NoHist]
    /\ raw = DocA
    /\ out = <<>>
    /\ downloadedAt = [g \in BothIds |-> NoDate]

\* two callers of the full mirror, each with at most two calls on a repository of its
\* own, their steps interleaved; the remotes stay as they are
IndepNext ==
    \/ \E p \in Procs : \E kind \in {"full", "lct"} :
          hist[p].prevKind = "none" /\ Start(p, kind, CallerOf(p))
    \/ \E p \in Procs : FullStep(p)

IndepSpec == IndepInit /\ [][IndepNext]_vars

(***************************************************************************)
(* processExecutableManifest on its own: the document JSON.parse returned  *)
(* is drawn from a bounded set, normalised, and its output, written as     *)
(* JSON and parsed again, normalised once more.                            *)
(***************************************************************************)
Null == [t |-> "null"]

\* a JSON object holds no undefined value
Strip(o) == [k \in {x \in DOMAIN o : o[x] # Undef} |-> o[k]]

\* JSON.parse(JSON.stringify(v)): undefined properties are left out, NaN is written as null
RECURSIVE JsonRoundTrip(_)
JsonRoundTrip(v) ==
    IF "t" \in DOMAIN v THEN (IF v = NaN THEN Null ELSE v)
    ELSE [k \in {x \in DOMAIN v : v[x] # Undef} |-> JsonRoundTrip(v[k])]

DefaultValues == {Undef, Num(0), Num(4), Num(-4)}
OptionDefaultValues == {Undef, Str(""), Str("long")}
MaxValues == {Undef, Num(0), Num(3), Num(10)}
MinValues == {Undef, Num(1), Num(6), Num(-6)}
StepValues == {Undef, Num(-1), Num(2)}
UnitValues == {Undef, Str("GB"), Str("Hours"), Str("Weeks"), Str("None")}
OptionValues == {Undef, Arr(<<>>), Arr(<<Str("short")>>), Arr(<<Str("long"), Str("short")>>)}
TypeValues == {Undef, Str("integer"), Str("string_option"), Str("string_input"), Str("float")}
SlurmNames == {"time", "memory", "num_of_task", "partition", "priority"}

\* rules as a manifest.json can hold them
IntegerRules ==
    {Strip([default_value |-> d, max |-> mx, min |-> mn, step |-> st, unit |-> u]) :
        d \in DefaultValues, mx \in MaxValues, mn \in MinValues, st \in StepValues,
        u \in UnitValues}

OptionRules ==
    {Strip([default_value |-> d, options |-> o]) :
        d \in OptionDefaultValues, o \in OptionValues}

\* the rules a manifest.json gives under a cluster-resource name
SlurmRules(n) ==
    IF n \in slurm_integer_configs THEN IntegerRules
    ELSE IF n \in slurm_string_option_configs THEN OptionRules
    ELSE IntegerRules \cup OptionRules

\* the rules a manifest.json gives as parameters of a type
ParamRules(t) ==
    LET rules == IF t = Str("integer") THEN IntegerRules
                 ELSE IF t \in {Str("string_option"), Str("string_input")} THEN OptionRules
                 ELSE IntegerRules \cup OptionRules
    IN  {Strip(Assign(r, [type |-> t])) : r \in rules}

\* name, supported_hpc and default_hpc as a manifest.json with rules gives them
Heads ==
    {[name |-> Str("demo")],
     [name |-> Str("demo"), supported_hpc |-> Arr(<<Str("anvil")>>),
      default_hpc |-> Str("anvil")]}

\* supported_hpc and default_hpc as a manifest.json without rules gives them
HpcValues ==
    {[supported_hpc |-> s, default_hpc |-> d] :
        s \in {Undef, Arr(<<>>), Arr(<<Str("anvil")>>), Arr(<<Str("anvil"), Str("expanse")>>)},
        d \in {Undef, Str(""), Str("anvil"), Str("expanse"), Str("keeling_community")}}

\* the top-level fields a manifest.json can give besides these
OwnFields ==
    [description |-> Str("a demo"), estimated_runtime |-> Str("1h"),
     repository |-> Str(Address("A")), require_upload_data |-> Bool(TRUE),
     slurm_input_rules |-> EmptyObj, param_rules |-> EmptyObj]

\* the documents with one rule
RuleDocuments ==
    UNION {{[slurm_input_rules |-> [x \in {n} |-> r]] : r \in SlurmRules(n)} : n \in SlurmNames}
    \cup UNION {{[param_rules |-> [x \in {"mode"} |-> r]] : r \in ParamRules(t)} : t \in TypeValues}

\* the documents JSON.parse returns
Documents ==
    {Strip([name |-> Str("demo"), supported_hpc |-> h.supported_hpc,
            default_hpc |-> h.default_hpc]) : h \in HpcValues}
    \cup {Assign(h, d) : h \in Heads, d \in RuleDocuments}
    \cup {Assign(Assign(OwnFields, h), d) : h \in Heads, d \in RuleDocuments}

NormInit ==
    /\ remote = [g \in Ids |-> <<>>]
    /\ defaultBranch = [g \in Ids |-> "main"]
    /\ gitSha = [g \in Ids |-> 0]
    /\ updatedAt = [g \in Ids |-> NoDate]
    /\ mirror = [g \in Ids |-> Missing]
    /\ manifests = [g \in Ids |-> "missing"]
    /\ cache = [g \in Ids |-> NoEntry]
    /\ now = 0
    /\ ticks = 0
    /\ calls = 0
    /\ proc = [p \in Procs |-> IdleProc]
    /\ hist = [p \in Procs |-> NoHist]
    /\ raw \in Documents
    /\ out = <<>>
    /\ downloadedAt = [g \in Ids |-> NoDate]

\* processExecutableManifest(rawExecutableManifest, git.address)
Normalize ==
    /\ out = <<>>
    /\ out' = <<processExecutableManifest(raw, Address("A"))>>
    /\ UNCHANGED <<remote, defaultBranch, gitSha, updatedAt, mirror, manifests, cache, now,
                   ticks, calls, proc, hist, raw, downloadedAt>>

\* processExecutableManifest on the JSON text of what it returned
Renormalize ==
    /\ Len(out) = 1
    /\ out' = Append(out, processExecutableManifest(JsonRoundTrip(out[1]), Address("A")))
    /\ UNCHANGED <<remote, defaultBranch, gitSha, updatedAt, mirror, manifests, cache, now,
                   ticks, calls, proc, hist, raw, downloadedAt>>

NormNext ==
    \/ Normalize
    \/ Renormalize

NormSpec == NormInit /\ [][NormNext]_vars

(***************************************************************************)
(* Properties.                                                             *)
(***************************************************************************)
Done(p) == proc[p].pc = "done"

\* the call of p came right after a successful full-mirror getExecutableManifest on the
\* same id, and the remote got no commit since that call began
AfterQuietSuccess(p) ==
    /\ proc[p].kind = "full"
    /\ hist[p].prevKind = "full"
    /\ hist[p].prevRes.st = "ok"
    /\ hist[p].quiet
    /\ ~hist[p].pushed

\* C1: with no pinned revision, the getExecutableManifest call that follows a successful
\* one while the remote head stays the same clones, pulls, checks out and deletes nothing,
\* and what it returns is the manifest the first call returned; the one other way out is
\* the error of a fetch that did not reach the remote.
CacheReuse ==
    \A p \in Procs :
        (Done(p) /\ AfterQuietSuccess(p) /\ gitSha[proc[p].id] = 0)
            => /\ ~hist[p].mutated
               /\ proc[p].res = hist[p].prevRes \/ proc[p].res = Error("fetch")

CacheReuseWitness ==
    \E p \in Procs :
        /\ Done(p) /\ AfterQuietSuccess(p) /\ gitSha[proc[p].id] = 0
        /\ hist[p].cached
        /\ proc[p].res = hist[p].prevRes

\* C2: a manifest returned from the cache is the normalisation of the manifest.json the
\* full mirror holds at that moment.
CacheCoherent ==
    \A p \in Procs :
        (Done(p) /\ proc[p].kind = "full" /\ hist[p].cached)
            => LET text == WorkTree(proc[p].id, mirror[proc[p].id])
               IN  WellFormed(text) /\ proc[p].res = ManifestOf(proc[p].id, text)

\* C3: a call deletes and recreates the mirror in response to a failure at most once.
RecoveryAtMostOnce == \A p \in Procs : Len(hist[p].rec) <= 1

\* C3 (amended): a call deletes and recreates the mirror at most once for a failed update
\* and at most once for a failed manifest read, in that order: at most twice, never in a loop.
RecoveryOncePerStage ==
    \A p \in Procs :
        hist[p].rec \in {<<>>, <<"update">>, <<"read">>, <<"update", "read">>,
                         <<"mupdate">>, <<"mread">>, <<"mupdate", "mread">>}

TwoRecoveries ==
    \E p \in Procs : Done(p) /\ hist[p].rec = <<"update", "read">> /\ proc[p].res = Error("read")

\* the call of p is between the start and the end of a mutation of the full mirror
MutatingMirror(p) == proc[p].kind \in {"full", "lct"} /\ proc[p].pc \in {"clone", "checkout"}

\* the call of p is between the start and the end of a mutation of the manifest-only mirror
MutatingManifests(p) == proc[p].kind = "manifest" /\ proc[p].pc \in {"minit", "mbranch", "mdownload"}

\* the call of p is about to read manifest.json of a mirror that q deleted and has not recreated
ReadsDeleted(p, q) ==
    \/ proc[p].pc \in {"read", "read2"} /\ proc[q].kind \in {"full", "lct"} /\ proc[q].pc = "clone"
    \/ proc[p].pc \in {"mread", "mread2"} /\ proc[q].kind = "manifest"
          /\ proc[q].pc \in {"mbranch", "mdownload"}

\* C4: two calls on the same id are never both inside a mutation of the same mirror, and
\* none reads manifest.json of a mirror another one deleted and has not recreated.
SameIdSerialized ==
    \A p, q \in Procs :
        (p # q /\ proc[p].id = proc[q].id)
            => /\ ~(MutatingMirror(p) /\ MutatingMirror(q))
               /\ ~(MutatingManifests(p) /\ MutatingManifests(q))
               /\ ~ReadsDeleted(p, q)

\* C5: a full-mirror getExecutableManifest on a pinned repository that refreshed the
\* mirror and returned a manifest leaves the mirror checked out at git.sha.
PinnedCheckedOut ==
    \A p \in Procs :
        LET g == proc[p].id
        IN  (Done(p) /\ proc[p].kind = "full" /\ proc[p].res.st = "ok"
                /\ gitSha[g] # 0 /\ hist[p].synced)
                => mirror[g].st = "repo" /\ mirror[g].head = gitSha[g]

PinnedBehindHead ==
    \E p \in Procs :
        LET g == proc[p].id
        IN  /\ Done(p) /\ proc[p].kind = "full" /\ proc[p].res.st = "ok"
            /\ gitSha[g] # 0 /\ hist[p].synced
            /\ RemoteHead(g) > gitSha[g]
            /\ mirror[g].objs = RemoteHead(g)

\* C6: a call that refreshed its mirror and returned has written updatedAt.
SyncTimestampRecorded ==
    \A p \in Procs :
        (Done(p) /\ proc[p].kind \in {"full", "manifest"} /\ proc[p].res.st = "ok"
            /\ hist[p].synced) => hist[p].wrote

\* the text the read of p gets: none when readFile throws
ReadText(p) ==
    IF proc[p].kind = "manifest" THEN manifests[proc[p].id]
    ELSE WorkTree(proc[p].id, mirror[proc[p].id])

\* the read of p returns a text that JSON.parse rejects
ReadsUnparsable(p) ==
    /\ proc[p].pc \in {"read", "read2", "mread", "mread2"}
    /\ ReadText(p) \notin {"absent", "missing", "nofile"}
    /\ ~WellFormed(ReadText(p))

\* C7: the step that reads a text that does not parse ends the call with the parse error
\* and does nothing else: no deletion, no download, no further read.
ParseErrorSurfaces ==
    [][\A p \in Procs :
          (ReadsUnparsable(p) /\ proc'[p] # proc[p])
              => /\ proc'[p] = Finished(proc[p], Error("parse"))
                 /\ mirror' = mirror
                 /\ manifests' = manifests
                 /\ cache' = cache
                 /\ hist'[p] = hist[p]]_vars

ParseErrorWitness ==
    \E p \in Procs : Done(p) /\ proc[p].kind = "full" /\ proc[p].res = Error("parse")

\* C8: when the read that follows the deleteAndPull of a failed read fails too, the call
\* ends in an error and the full mirror is as that deleteAndPull left it.
RecreatedMirrorLeft ==
    \A p \in Procs :
        (Done(p) /\ proc[p].kind = "full" /\ proc[p].res = Error("read"))
            => /\ hist[p].rec # <<>>
               /\ hist[p].rec[Len(hist[p].rec)] = "read"
               /\ hist[p].snap.st = "repo"
               /\ mirror[proc[p].id] = hist[p].snap

SecondReadFailed ==
    \E p \in Procs :
        /\ Done(p) /\ proc[p].kind = "full" /\ proc[p].res = Error("read")
        /\ mirror[proc[p].id].st = "repo"

\* C9: every download of the manifest-only mirror names git.sha when it is set and the
\* remote's resolved default branch otherwise.
RevisionSelected ==
    \A p \in Procs : \A i \in DOMAIN hist[p].dl : hist[p].dl[i].rev = hist[p].dl[i].want

\* C10: the manifest-only mirror is judged stale exactly when git.updatedAt is undefined
\* or null or lies more than 120 seconds back, and it is downloaded again exactly then.
TtlPolicy ==
    \A p \in Procs :
        hist[p].ttl # <<>> =>
            LET c == hist[p].ttl[1]
                old == IF c.u.t = "date" THEN c.now - c.u.ms > 120000 ELSE TRUE
            IN  /\ c.stale <=> old
                /\ (c.stale /\ proc[p].pc # "mupdate")
                      => \E i \in DOMAIN hist[p].dl : hist[p].dl[i].stage = "update"
                /\ ~c.stale => \A i \in DOMAIN hist[p].dl : hist[p].dl[i].stage # "update"

FreshAtExactly120 ==
    \E p \in Procs :
        /\ hist[p].ttl # <<>>
        /\ hist[p].ttl[1].u.t = "date"
        /\ hist[p].ttl[1].now - hist[p].ttl[1].u.ms = 120000
        /\ ~hist[p].ttl[1].stale
        /\ proc[p].pc = "done"

(***************************************************************************)
(* Properties of the staleness check and of the mirror's lifecycle.        *)
(***************************************************************************)
\* the revision the mirror is compared with: git.sha when set, the fetched head otherwise
Authoritative(p) ==
    IF gitSha[proc[p].id] # 0 THEN gitSha[proc[p].id] ELSE proc[p].remoteSha

\* C17: outOfDate answers stale exactly when the remote has no head or the revision the
\* mirror is compared with differs from the mirror's latest commit; a pinned mirror that
\* is at its pinned revision is fresh.
StaleWhenDiffers ==
    [][\A p \in Procs :
          /\ (proc[p].pc = "fetch" /\ proc'[p].pc \in {"update", "log"})
                => (proc'[p].pc = "update" <=> RemoteHead(proc[p].id) = 0)
          /\ (proc[p].pc = "log" /\ proc'[p].pc \in {"update", "refreshed"})
                => (proc'[p].pc = "update"
                      <=> Authoritative(p) # mirror[proc[p].id].head)]_vars

\* C18: no call on an existing full mirror fails because its staleness check (the fetch or
\* the log of outOfDate) failed.
StalenessFailureTolerated ==
    \A p \in Procs :
        (Done(p) /\ proc[p].kind = "full")
            => proc[p].res \notin {Error("fetch"), Error("norepo"), Error("log")}

\* no call is running
BetweenCalls == \A p \in Procs : proc[p].pc \in {"idle", "done"}

\* C19: between calls a mirror directory exists only as a completed clone or download
\* left it: neither an empty or partial directory nor a directory without its manifest.json.
MirrorOnlyAfterClone ==
    BetweenCalls =>
        \A g \in Ids :
            /\ mirror[g].st \in {"missing", "repo"}
            /\ manifests[g] \notin {"nofile", "empty"}

\* the remote serves a manifest.json that parses at the revision the repository asks for
ServesManifest(g) ==
    LET rev == IF gitSha[g] # 0 THEN gitSha[g] ELSE RemoteHead(g)
    IN  /\ 1 <= rev /\ rev <= RemoteHead(g)
        /\ WellFormed(remote[g][rev])

\* C20: a getExecutableManifest made while the remote serves a well-formed manifest.json
\* returns a manifest, whatever earlier calls left behind, unless the remote could not be
\* reached during it.
Recoverable ==
    \A p \in Procs :
        (Done(p) /\ proc[p].kind = "full" /\ ~hist[p].pushed /\ ServesManifest(proc[p].id))
            => \/ proc[p].res.st = "ok"
               \/ proc[p].res \in {Error("clone"), Error("fetch")}

(***************************************************************************)
(* Properties of processExecutableManifest.                                *)
(***************************************************************************)
\* the rule mapping of a document, empty when the document holds none
RulesOf(m, field) == IF field \in DOMAIN m THEN m[field] ELSE EmptyObj

IsNumber(v) == v.t = "number"

\* min <= default_value <= max and step > 0
Bounded(rule) ==
    LET d == Get(rule, "default_value")
        mn == Get(rule, "min")
        mx == Get(rule, "max")
        st == Get(rule, "step")
    IN  /\ IsNumber(d) /\ IsNumber(mn) /\ IsNumber(mx) /\ IsNumber(st)
        /\ mn.n <= d.n /\ d.n <= mx.n
        /\ st.n > 0

IntegerSlurm(n) == n \in slurm_integer_configs
IntegerParam(rule) == Get(rule, "type") = Str("integer")
OptionSlurm(n) == n \in slurm_string_option_configs
OptionParam(rule) == Get(rule, "type") = Str("string_option")

\* C11: every rule that survives has a non-empty default_value, and every surviving
\* integer rule has min <= default_value <= max and step > 0.
ValidatedRules ==
    out # <<>> =>
        LET sl == out[1]["slurm_input_rules"]
            pr == out[1]["param_rules"]
        IN  /\ \A n \in DOMAIN sl :
                  /\ Truthy(Get(sl[n], "default_value"))
                  /\ IntegerSlurm(n) => Bounded(sl[n])
            /\ \A n \in DOMAIN pr :
                  /\ Truthy(Get(pr[n], "default_value"))
                  /\ IntegerParam(pr[n]) => Bounded(pr[n])

\* C12: the manifest returned has default_hpc among its supported_hpc.
DefaultHpcSupported ==
    out # <<>> => Includes(out[1]["supported_hpc"], out[1]["default_hpc"])

\* max of a surviving integer rule: twice default_value when the input has none, the
\* input's otherwise
MaxAsClaimed(in, o) ==
    IF "max" \in DOMAIN in THEN Get(o, "max") = in["max"]
    ELSE Get(o, "max") = Times2(Get(in, "default_value"))

\* C13: a surviving integer rule whose input has no max gets max = 2 * default_value, and
\* a max the input has is left as it is.
MissingMaxDoubled ==
    out # <<>> =>
        LET sl == out[1]["slurm_input_rules"]
            pr == out[1]["param_rules"]
        IN  /\ \A n \in DOMAIN sl :
                  IntegerSlurm(n) => MaxAsClaimed(raw["slurm_input_rules"][n], sl[n])
            /\ \A n \in DOMAIN pr :
                  IntegerParam(pr[n]) => MaxAsClaimed(raw["param_rules"][n], pr[n])

\* options of a surviving string-option rule as the claim has it
OptionsAsClaimed(in, o) ==
    LET d == Get(in, "default_value")
    IN  IF "options" \notin DOMAIN in THEN Get(o, "options") = Arr(<<d>>)
        ELSE IF Includes(in["options"], d) THEN Get(o, "options") = in["options"]
        ELSE Get(o, "options") = Arr(Append(in["options"].a, d))

\* C14: a surviving string-option rule gets options = [default_value] when the input has
\* none, the input's options with default_value appended once when they lack it, and the
\* input's options unchanged when they hold it.
OptionsHoldDefault ==
    out # <<>> =>
        LET sl == out[1]["slurm_input_rules"]
            pr == out[1]["param_rules"]
        IN  /\ \A n \in DOMAIN sl :
                  OptionSlurm(n) => OptionsAsClaimed(raw["slurm_input_rules"][n], sl[n])
            /\ \A n \in DOMAIN pr :
                  OptionParam(pr[n]) => OptionsAsClaimed(raw["param_rules"][n], pr[n])

DefaultAppended ==
    /\ out # <<>>
    /\ \E n \in DOMAIN out[1]["param_rules"] :
          LET in == raw["param_rules"][n]
              o == out[1]["param_rules"][n]
          IN  /\ OptionParam(o)
              /\ "options" \in DOMAIN in
              /\ in["options"].a # <<>>
              /\ ~Includes(in["options"], Get(in, "default_value"))
              /\ o["options"] = Arr(Append(in["options"].a, in["default_value"]))

\* the document satisfies the invariants of a validated manifest; it also gives every
\* top-level field itself and only units its rule categories allow
Validated(m) ==
    LET sl == RulesOf(m, "slurm_input_rules")
        pr == RulesOf(m, "param_rules")
        holdsDefault(rule) ==
            "options" \in DOMAIN rule /\ Includes(rule["options"], Get(rule, "default_value"))
        unitAllowed(n, rule) ==
            IF n \in slurm_integer_none_unit_config THEN Get(rule, "unit") = Str("None")
            ELSE IF n \in slurm_integer_time_unit_config
            THEN Get(rule, "unit") \in {Undef, Str("Minutes"), Str("Hours"), Str("Days")}
            ELSE IF n \in slurm_integer_storage_unit_config
            THEN Get(rule, "unit") \in {Undef, Str("GB"), Str("MB")}
            ELSE TRUE
    IN  /\ DOMAIN OwnFields \subseteq DOMAIN m
        /\ "supported_hpc" \in DOMAIN m /\ "default_hpc" \in DOMAIN m
        /\ Includes(m["supported_hpc"], m["default_hpc"])
        /\ \A n \in DOMAIN sl :
              /\ n \in slurm_configs
              /\ Truthy(Get(sl[n], "default_value"))
              /\ IntegerSlurm(n) => Bounded(sl[n]) /\ unitAllowed(n, sl[n])
              /\ OptionSlurm(n) => holdsDefault(sl[n])
        /\ \A n \in DOMAIN pr :
              /\ Get(pr[n], "type") \in {Str("integer"), Str("string_option"), Str("string_input")}
              /\ Truthy(Get(pr[n], "default_value"))
              /\ IntegerParam(pr[n]) => Bounded(pr[n])
              /\ OptionParam(pr[n]) => holdsDefault(pr[n])

\* C15: a document that satisfies the invariants of a validated manifest (and has nothing
\* left to default) is returned as it is.
ValidatedUnchanged ==
    (out # <<>> /\ Validated(raw)) => JsonRoundTrip(out[1]) = raw

\* second normalisation: what processExecutableManifest returned, written as JSON and
\* given to it again, comes back equal.
RenormalizedUnchanged ==
    Len(out) = 2 => out[2] = out[1]

RenormalizedRule ==
    /\ Len(out) = 2
    /\ out[2] = out[1]
    /\ DOMAIN out[1]["slurm_input_rules"] # {}
    /\ JsonRoundTrip(out[1])["slurm_input_rules"] # raw["slurm_input_rules"]

(***************************************************************************)
(* Properties of calls on two repositories.                                *)
(***************************************************************************)
\* the step of a call leaves the mirrors, the cache entry and updatedAt of every other
\* repository as they are
OthersUntouched ==
    \A p \in Procs :
        proc'[p] # proc[p] =>
            \A g \in DOMAIN mirror :
                g # proc'[p].id =>
                    /\ mirror'[g] = mirror[g]
                    /\ manifests'[g] = manifests[g]
                    /\ cache'[g] = cache[g]
                    /\ updatedAt'[g] = updatedAt[g]

\* a call that has not returned can take its next step whatever the other call is doing
NeverWaits ==
    \A p \in Procs : proc[p].pc \notin {"idle", "done"} => ENABLED FullStep(p)

\* what a call returns and leaves in the cache is what its own mirror holds
OwnResult ==
    \A p \in Procs :
        LET g == proc[p].id
            text == WorkTree(g, mirror[g])
        IN  (Done(p) /\ proc[p].res.st = "ok") =>
                IF proc[p].kind = "lct" THEN proc[p].res = Ok([commitTime |-> mirror[g].head])
                ELSE /\ proc[p].res = ManifestOf(g, text)
                     /\ cache[g] = proc[p].res.v

SkipsDownload(p) ==
    /\ proc[p].kind = "manifest"
    /\ proc[p].pc = "mread"
    /\ Len(hist[p].ttl) = 1
    /\ ~hist[p].ttl[1].stale
    /\ manifests[proc[p].id] \notin {"missing", "nofile", "empty"}

\* the copy at g was written by a download that ended at most 120 seconds ago
RecentlyDownloaded(g) ==
    /\ downloadedAt[g].t = "date"
    /\ ~StaleManifest(now, downloadedAt[g])

\* C21: a manifest-only getExecutableManifest that skips the download because the mirror
\* is judged fresh reads a copy that was downloaded at most 120 seconds earlier, also when
\* full-mirror refreshes of the same repository ran in between.
BoundedStaleness ==
    \A p \in Procs : SkipsDownload(p) => RecentlyDownloaded(proc[p].id)

\* a call skipped the download and reads a copy that is not older than the time-to-live
SkippedWithinTtl ==
    \E p \in Procs :
        /\ SkipsDownload(p)
        /\ hist[p].dl = <<>>
        /\ RecentlyDownloaded(proc[p].id)
        /\ now > downloadedAt[proc[p].id].ms

====
